---- MODULE Spec2Model ----
(***************************************************************************)
(* A model of the placement solver of src/src/solver.rs: the mask algebra, *)
(* the grid and its place primitive, the admissibility predicates, the     *)
(* candidate generator, place_all and the backtracking search of solve.    *)
(*                                                                         *)
(* Encodings.  Option<T> is a set: None is {} and Some(v) is {v}.  A Cell  *)
(* is an integer: Empty, Forbidden, or the requirement index r >= 0 for    *)
(* Placed(r).  Vec and ndarray data are row-major sequences; the source's  *)
(* 0-based (y, x) is element y * width + x + 1.                            *)
(***************************************************************************)
EXTENDS Integers, Sequences, FiniteSets, TLC

VARIABLES
    overflow_checks, \* build profile: TRUE when usize arithmetic is checked
    grid,            \* PlaceSpec: the grid the caller of Grid::place holds
    placed,          \* PlaceSpec: number of successful place calls so far
    call,            \* PlaceSpec: the last call of Grid::place and its outcome;
                     \* FnSpec: the call made and what it returned
    pc,              \* Spec: where solve is: "start", "search", "done", "panic",
                     \* or "assert" after assert!(solution.len() == ...) failed
    input,           \* Spec: the arguments of solve; FnSpec: the function
                     \* called and its arguments
    candidates,      \* Spec: the sorted (req_idx, candidates) list of solve
    stack,           \* Spec: the live solve_helper invocations, root first
    visited,         \* Spec: the set of part-topologies seen
    emitted          \* Spec: the Solutions yielded so far, in order

placeVars == <<grid, placed, call>>
solveVars == <<pc, input, candidates, stack, visited, emitted>>
vars == <<overflow_checks, grid, placed, call, pc, input, candidates, stack, visited,
          emitted>>

----------------------------------------------------------------------------
\* Bounds of the model.

MaxH == 2
MaxW == 3
MaxMaskH == 2
MaxMaskW == 2
MaxPlaced == 2
NumReqIdx == 2

----------------------------------------------------------------------------
\* Option<T>

None == {}
Some(v) == {v}

\* Cell

Empty == -1
Forbidden == -2
Placed(r) == r

\* usize arithmetic wraps modulo 2^32 on the wasm32 target of src/src/lib.rs
\* (2^64 natively).  TLC's integers are narrower, so the model wraps modulo
\* 2^30: like the real modulus it exceeds every size and position here.
UsizeModulus == 2^30

WrapSub(a, b) == (a - b) % UsizeModulus

Min(a, b) == IF a <= b THEN a ELSE b

----------------------------------------------------------------------------
\* Mask

MaskAt(mask, y, x) == mask.cells[y * mask.width + x + 1]

\* The (y, x) of the set cells of a mask.
MaskSetCells(mask) ==
    {p \in (0 .. mask.height - 1) \X (0 .. mask.width - 1) : MaskAt(mask, p[1], p[2])}

\* Mask::rotate90: the transpose, then every row reversed.
Transpose(mask) ==
    [height |-> mask.width, width |-> mask.height,
     cells |-> [k \in 1 .. mask.height * mask.width |->
                  MaskAt(mask, (k - 1) % mask.height, (k - 1) \div mask.height)]]

ReverseRows(mask) ==
    [mask EXCEPT !.cells =
        [k \in 1 .. mask.height * mask.width |->
           MaskAt(mask, (k - 1) \div mask.width,
                  mask.width - 1 - ((k - 1) % mask.width))]]

\* rotate90 without the reversal of its rows.
MutRotate90NoReverse(mask) == Transpose(mask)

Rotate90(mask) == ReverseRows(Transpose(mask))

\* Mask::rotate whose loop stops after three turns.
MutRotateThreeAtMost(mask, num) ==
    IF num = 0 THEN mask
    ELSE IF num = 1 THEN Rotate90(mask)
    ELSE IF num = 2 THEN Rotate90(Rotate90(mask))
    ELSE Rotate90(Rotate90(Rotate90(mask)))

\* Mask::rotate: rotate90 applied num times.
RECURSIVE Rotate(_, _)
Rotate(mask, num) == IF num = 0 THEN mask ELSE Rotate(Rotate90(mask), num - 1)

ColumnAny(mask, x) == \E y \in 0 .. mask.height - 1 : MaskAt(mask, y, x)
RowAny(mask, y) == \E x \in 0 .. mask.width - 1 : MaskAt(mask, y, x)

\* The least (greatest) element of a set of naturals, or the default.
FirstOr(S, default) == IF S = {} THEN default ELSE CHOOSE i \in S : \A j \in S : i <= j
LastOr(S, default) == IF S = {} THEN default ELSE CHOOSE i \in S : \A j \in S : i >= j

\* Mask::trimmed: the slice [top..bottom, left..right].
Trimmed(mask) ==
    LET h == mask.height
        w == mask.width
        left == FirstOr({i \in 0 .. w - 1 : ColumnAny(mask, i)}, 0)
        top == FirstOr({i \in 0 .. h - 1 : RowAny(mask, i)}, 0)
        right == LastOr({i \in 0 .. w - 1 : ColumnAny(mask, i)}, w - 1) + 1
        bottom == LastOr({i \in 0 .. h - 1 : RowAny(mask, i)}, h - 1) + 1
        height == bottom - top
        width == right - left
    IN  [height |-> height, width |-> width,
         cells |-> [k \in 1 .. height * width |->
                      MaskAt(mask, top + ((k - 1) \div width), left + ((k - 1) % width))]]

\* Mask::trimmed in a build profile.  unwrap_or(w - 1) and unwrap_or(h - 1)
\* evaluate the subtraction whether or not it is needed: on a mask without
\* columns or without rows it underflows, a panic when checked; otherwise the
\* wrapped value plus one wraps back to 0, which is what Trimmed computes.
TrimmedRun(mask, checked) ==
    IF checked /\ (mask.width = 0 \/ mask.height = 0)
    THEN [status |-> "panic", mask |-> None]
    ELSE [status |-> "returned", mask |-> Some(Trimmed(mask))]

\* The number of set cells of a mask.
CountSet(mask) == Cardinality({k \in 1 .. mask.height * mask.width : mask.cells[k]})

----------------------------------------------------------------------------
\* Grid

GridAt(g, y, x) == g.cells[y * g.width + x + 1]

Corners(h, w) == {<<0, 0>>, <<h - 1, 0>>, <<0, w - 1>>, <<h - 1, w - 1>>}

\* Grid::new that forbids only the corners of the top row.
MutGridNewTopCorners(settings) ==
    [has_oob |-> settings.has_oob,
     command_line_row |-> settings.command_line_row,
     height |-> settings.height,
     width |-> settings.width,
     cells |-> [k \in 1 .. settings.height * settings.width |->
                  IF settings.has_oob
                     /\ <<(k - 1) \div settings.width, (k - 1) % settings.width>>
                            \in {<<0, 0>>, <<0, settings.width - 1>>}
                  THEN Forbidden ELSE Empty]]

GridNew(settings) ==
    [has_oob |-> settings.has_oob,
     command_line_row |-> settings.command_line_row,
     height |-> settings.height,
     width |-> settings.width,
     cells |-> [k \in 1 .. settings.height * settings.width |->
                  IF settings.has_oob
                     /\ <<(k - 1) \div settings.width, (k - 1) % settings.width>>
                            \in Corners(settings.height, settings.width)
                  THEN Forbidden ELSE Empty]]

GridSettingsOf(g) ==
    [height |-> g.height, width |-> g.width, has_oob |-> g.has_oob,
     command_line_row |-> g.command_line_row]

\* (src, dst) of one axis for a signed position component.
SrcOf(p) == IF p < 0 THEN -p ELSE 0
DstOf(p) == IF p < 0 THEN 0 ELSE p

\* The validation loop's verdict on mask cell (y, x): "continue", "none"
\* (return None) or "panic".  checked is the build profile: with overflow
\* checks an underflow of w - dst_x or h - dst_y panics, without them the
\* difference wraps.
ClipCheck(g, mask, pos, y, x, checked) ==
    LET src_y == SrcOf(pos.y)
        dst_y == DstOf(pos.y)
        src_x == SrcOf(pos.x)
        dst_x == DstOf(pos.x)
        clipped == IF MaskAt(mask, y, x) THEN "none" ELSE "continue"
    IN  IF ~(x >= src_x /\ y >= src_y) THEN clipped
        ELSE IF dst_x > g.width /\ checked THEN "panic"
        ELSE IF ~(x < WrapSub(g.width, dst_x)) THEN clipped
        ELSE IF dst_y > g.height /\ checked THEN "panic"
        ELSE IF ~(y < WrapSub(g.height, dst_y)) THEN clipped
        ELSE "continue"

\* The first verdict other than "continue", in the loop's row-major order.
ClipVerdict(g, mask, pos, checked) ==
    LET bad == {k \in 1 .. mask.height * mask.width :
                   ClipCheck(g, mask, pos, (k - 1) \div mask.width,
                             (k - 1) % mask.width, checked) # "continue"}
        first == CHOOSE k \in bad : \A j \in bad : k <= j
    IN  IF bad = {} THEN "continue"
        ELSE ClipCheck(g, mask, pos, (first - 1) \div mask.width,
                       (first - 1) % mask.width, checked)

\* Stamp with the mask read at (i, j) instead of (src_y + i, src_x + j).
MutStampNoSrc(g, mask, pos, requirement_index) ==
    LET dst_y == DstOf(pos.y)
        dst_x == DstOf(pos.x)
        rows == Min(mask.height - SrcOf(pos.y), g.height - dst_y)
        cols == Min(mask.width - SrcOf(pos.x), g.width - dst_x)
        pairs == {p \in (0 .. rows - 1) \X (0 .. cols - 1) : MaskAt(mask, p[1], p[2])}
        hit == {p \in pairs : GridAt(g, dst_y + p[1], dst_x + p[2]) # Empty}
    IN  [status |-> IF hit = {} THEN "Some" ELSE "None",
         self |-> [g EXCEPT !.cells =
                     [k \in 1 .. g.height * g.width |->
                        IF <<((k - 1) \div g.width) - dst_y,
                             ((k - 1) % g.width) - dst_x>> \in pairs \ hit
                        THEN Placed(requirement_index) ELSE g.cells[k]]]]

\* Stamp that only refuses a cell Placed by another requirement: Forbidden
\* cells and the requirement's own cells are overwritten.
MutStampOverwrite(g, mask, pos, requirement_index) ==
    LET src_y == SrcOf(pos.y)
        dst_y == DstOf(pos.y)
        src_x == SrcOf(pos.x)
        dst_x == DstOf(pos.x)
        rows == Min(mask.height - src_y, g.height - dst_y)
        cols == Min(mask.width - src_x, g.width - dst_x)
        pairs == {p \in (0 .. rows - 1) \X (0 .. cols - 1) :
                     MaskAt(mask, src_y + p[1], src_x + p[2])}
        hit == {p \in pairs :
                   GridAt(g, dst_y + p[1], dst_x + p[2])
                       \notin {Empty, Forbidden, Placed(requirement_index)}}
    IN  [status |-> IF hit = {} THEN "Some" ELSE "None",
         self |-> [g EXCEPT !.cells =
                     [k \in 1 .. g.height * g.width |->
                        IF <<((k - 1) \div g.width) - dst_y,
                             ((k - 1) % g.width) - dst_x>> \in pairs \ hit
                        THEN Placed(requirement_index) ELSE g.cells[k]]]]

\* The stamping loop over the zipped sub-rectangles mask[src_y.., src_x..] and
\* cells[dst_y.., dst_x..]: self as the loop leaves it, and whether it
\* returned early on a cell that is not Empty.
Stamp(g, mask, pos, requirement_index) ==
    LET src_y == SrcOf(pos.y)
        dst_y == DstOf(pos.y)
        src_x == SrcOf(pos.x)
        dst_x == DstOf(pos.x)
        rows == Min(mask.height - src_y, g.height - dst_y)
        cols == Min(mask.width - src_x, g.width - dst_x)
        pairs == {p \in (0 .. rows - 1) \X (0 .. cols - 1) :
                     MaskAt(mask, src_y + p[1], src_x + p[2])}
        hit == {p \in pairs : GridAt(g, dst_y + p[1], dst_x + p[2]) # Empty}
        Before(p, q) == p[1] < q[1] \/ (p[1] = q[1] /\ p[2] < q[2])
        first == CHOOSE p \in hit : \A q \in hit : q = p \/ Before(p, q)
        written == IF hit = {} THEN pairs ELSE {p \in pairs : Before(p, first)}
    IN  [status |-> IF hit = {} THEN "Some" ELSE "None",
         self |-> [g EXCEPT !.cells =
                     [k \in 1 .. g.height * g.width |->
                        IF <<((k - 1) \div g.width) - dst_y,
                             ((k - 1) % g.width) - dst_x>> \in written
                        THEN Placed(requirement_index) ELSE g.cells[k]]]]

\* Grid::place run on self = g: the outcome ("Some", "None", "panic") and
\* the local self at that point.  ndarray panics on a slice that begins
\* past the end of its axis.
PlaceRun(g, mask, pos, requirement_index, checked) ==
    LET verdict == ClipVerdict(g, mask, pos, checked)
    IN  IF verdict = "none" THEN [status |-> "None", self |-> g]
        ELSE IF verdict = "panic" THEN [status |-> "panic", self |-> g]
        ELSE IF \/ SrcOf(pos.y) > mask.height
                \/ SrcOf(pos.x) > mask.width
                \/ DstOf(pos.y) > g.height
                \/ DstOf(pos.x) > g.width
             THEN [status |-> "panic", self |-> g]
        ELSE Stamp(g, mask, pos, requirement_index)

\* place that hands its partly stamped self back on a collision.
MutPlaceNotAtomic(g, mask, pos, requirement_index, checked) ==
    LET run == PlaceRun(g, mask, pos, requirement_index, checked)
    IN  [status |-> IF run.self # g THEN "Some" ELSE run.status,
         grid |-> IF run.status = "Some" \/ run.self # g THEN Some(run.self) ELSE None]

\* What place returns after a run: Some(self) only if the run went through.
Returned(run) ==
    [status |-> run.status,
     grid |-> IF run.status = "Some" THEN Some(run.self) ELSE None]

\* Grid::place: Option<Grid>, or a panic.  self is moved into the call and
\* dropped unless it is returned in Some.
Place(g, mask, pos, requirement_index, checked) ==
    Returned(PlaceRun(g, mask, pos, requirement_index, checked))

----------------------------------------------------------------------------
\* Admissibility of one placement and candidate generation

\* Some cell at row y (column x) of the grid is Placed(requirement_index).
GridRowHas(g, y, requirement_index) ==
    \E x \in 0 .. g.width - 1 : GridAt(g, y, x) = Placed(requirement_index)
GridColumnHas(g, x, requirement_index) ==
    \E y \in 0 .. g.height - 1 : GridAt(g, y, x) = Placed(requirement_index)

\* No cell of the slice [1..h-1, 1..w-1] is Placed(requirement_index).
InteriorLacks(g, requirement_index) ==
    \A y \in 1 .. g.height - 2, x \in 1 .. g.width - 2 :
        GridAt(g, y, x) # Placed(requirement_index)

\* placement_is_admissible panics at cells.row(command_line_row) when the row
\* is not a row of the grid, unless the first check has returned already.
PlacementIsAdmissiblePanics(g, requirement_index) ==
    /\ ~(g.has_oob /\ InteriorLacks(g, requirement_index))
    /\ g.command_line_row >= g.height

\* placement_is_admissible without its last check (bugged == Some(false)).
MutAdmissibleNoBugged(g, part_is_solid, requirement_index, on_command_line, bugged) ==
    LET placed_on_command_line ==
            /\ g.command_line_row < g.height
            /\ GridRowHas(g, g.command_line_row, requirement_index)
    IN  IF g.has_oob /\ InteriorLacks(g, requirement_index) THEN FALSE
        ELSE IF on_command_line # None /\ on_command_line # Some(placed_on_command_line)
        THEN FALSE
        ELSE TRUE

\* placement_is_admissible without its check of on_command_line.
MutAdmissibleNoLine(g, part_is_solid, requirement_index, on_command_line, bugged) ==
    LET placed_on_command_line ==
            /\ g.command_line_row < g.height
            /\ GridRowHas(g, g.command_line_row, requirement_index)
        placement_is_bugged ==
            \/ (IF g.has_oob
                THEN \/ GridRowHas(g, 0, requirement_index)
                     \/ GridColumnHas(g, 0, requirement_index)
                     \/ GridRowHas(g, g.height - 1, requirement_index)
                     \/ GridColumnHas(g, g.width - 1, requirement_index)
                ELSE FALSE)
            \/ (part_is_solid = ~placed_on_command_line)
    IN  IF g.has_oob /\ InteriorLacks(g, requirement_index) THEN FALSE
        ELSE IF bugged = Some(FALSE) /\ placement_is_bugged THEN FALSE
        ELSE TRUE

\* The out_of_bounds flag of placement_is_admissible.
OutOfBoundsFlag(g, requirement_index) ==
    IF g.has_oob
    THEN \/ GridRowHas(g, 0, requirement_index)
         \/ GridColumnHas(g, 0, requirement_index)
         \/ GridRowHas(g, g.height - 1, requirement_index)
         \/ GridColumnHas(g, g.width - 1, requirement_index)
    ELSE FALSE

PlacementIsAdmissible(g, part_is_solid, requirement_index, on_command_line, bugged) ==
    LET out_of_bounds == OutOfBoundsFlag(g, requirement_index)
        placed_on_command_line ==
            /\ g.command_line_row < g.height
            /\ GridRowHas(g, g.command_line_row, requirement_index)
        placement_is_bugged ==
            out_of_bounds \/ (part_is_solid = ~placed_on_command_line)
    IN  IF g.has_oob /\ InteriorLacks(g, requirement_index) THEN FALSE
        ELSE IF on_command_line # None /\ on_command_line # Some(placed_on_command_line)
        THEN FALSE
        ELSE IF bugged = Some(FALSE) /\ placement_is_bugged THEN FALSE
        ELSE TRUE

\* The positions placement_positions_for_mask visits, in its order: y from
\* -h + 1 to h - 1 and, for each y, x from -w + 1 to w - 1.
PositionsInOrder(grid_settings) ==
    LET w == grid_settings.width
        h == grid_settings.height
    IN  [k \in 1 .. (2 * h - 1) * (2 * w - 1) |->
            [x |-> ((k - 1) % (2 * w - 1)) - w + 1,
             y |-> ((k - 1) \div (2 * w - 1)) - h + 1]]

\* The body of the loop of placement_positions_for_mask once place has put
\* the mask on grid g: "push", "continue" or "panic".
PlacedVerdict(g, part_is_solid, on_command_line, bugged) ==
    IF PlacementIsAdmissiblePanics(g, 0) THEN "panic"
    ELSE IF PlacementIsAdmissible(g, part_is_solid, 0, on_command_line, bugged)
    THEN "push"
    ELSE "continue"

\* The body of that loop at one position, res being what place returned.
PositionVerdict(res, part_is_solid, on_command_line, bugged) ==
    IF res.status = "panic" THEN "panic"
    ELSE IF res.status = "None" THEN "continue"
    ELSE PlacedVerdict(CHOOSE g \in res.grid : TRUE, part_is_solid, on_command_line,
                       bugged)

\* The positions pushed, in order, or the panic of some turn of the loop.
Pushed(all, verdicts) ==
    LET kept == {k \in 1 .. Len(all) : verdicts[k] = "push"}
    IN  IF \E k \in 1 .. Len(all) : verdicts[k] = "panic"
        THEN [panic |-> TRUE, positions |-> <<>>]
        ELSE [panic |-> FALSE,
              positions |->
                  [p \in 1 .. Cardinality(kept) |->
                     all[CHOOSE k \in kept : Cardinality({j \in kept : j < k}) = p - 1]]]

\* placement_positions_for_mask: the positions kept, or a panic of place or
\* of placement_is_admissible at some position.  (A position here has
\* dst < size on both axes, where the build profiles agree.)
PlacementPositionsForMask(mask, part_is_solid, grid_settings, on_command_line, bugged) ==
    Pushed(PositionsInOrder(grid_settings),
           [k \in 1 .. Len(PositionsInOrder(grid_settings)) |->
              PositionVerdict(
                  Place(GridNew(grid_settings), mask, PositionsInOrder(grid_settings)[k],
                        0, FALSE),
                  part_is_solid, on_command_line, bugged)])

\* The (Location, Mask) pairs of one rotation.
LocationsAt(positions, mask, rotation) ==
    [k \in 1 .. Len(positions) |->
        [loc |-> [position |-> positions[k], rotation |-> rotation], mask |-> mask]]

\* The loop over i in 1..4 of placement_locations_and_masks_for_mask: mask is
\* the rotation i - 1, locations what was collected so far.  SpinTurn is the
\* turn i after mask.rotate90(), SpinExtend the turn after the positions of
\* the rotated mask were found.
RECURSIVE SpinLoop(_, _, _, _, _, _, _, _, _)
SpinExtend(i, rotated, known_masks, locations, found, part_is_solid, grid_settings, on_command_line, bugged) ==
    SpinLoop(i + 1, rotated, known_masks,
             locations \o LocationsAt(found.positions, rotated, i), found.panic,
             part_is_solid, grid_settings, on_command_line, bugged)

\* The turn without the break on a known trimmed mask.
MutSpinTurnNoBreak(i, rotated, known_masks, locations, part_is_solid, grid_settings, on_command_line, bugged) ==
    SpinExtend(i, rotated, known_masks, locations,
               PlacementPositionsForMask(rotated, part_is_solid, grid_settings,
                                         on_command_line, bugged),
               part_is_solid, grid_settings, on_command_line, bugged)

SpinTurn(i, rotated, known_masks, locations, part_is_solid, grid_settings, on_command_line, bugged) ==
    IF Trimmed(rotated) \in known_masks
    THEN [panic |-> FALSE, locations |-> locations]
    ELSE SpinExtend(i, rotated, known_masks, locations,
                    PlacementPositionsForMask(rotated, part_is_solid, grid_settings,
                                              on_command_line, bugged),
                    part_is_solid, grid_settings, on_command_line, bugged)

SpinLoop(i, mask, known_masks, locations, panic, part_is_solid, grid_settings, on_command_line, bugged) ==
    IF i >= 4 \/ panic THEN [panic |-> panic, locations |-> locations]
    ELSE SpinTurn(i, Rotate90(mask), known_masks, locations, part_is_solid,
                  grid_settings, on_command_line, bugged)

\* placement_locations_and_masks_for_mask after the positions of rotation 0
\* were found.  known_masks only ever holds the trimmed rotation 0: the loop
\* inserts nothing.
Spun(mask, first, part_is_solid, grid_settings, on_command_line, bugged, spinnable) ==
    IF spinnable /\ ~first.panic
    THEN SpinLoop(1, mask, {Trimmed(mask)}, LocationsAt(first.positions, mask, 0),
                  FALSE, part_is_solid, grid_settings, on_command_line, bugged)
    ELSE [panic |-> first.panic, locations |-> LocationsAt(first.positions, mask, 0)]

PlacementLocationsAndMasksForMask(mask, part_is_solid, grid_settings, on_command_line, bugged, spinnable) ==
    Spun(mask,
         PlacementPositionsForMask(mask, part_is_solid, grid_settings, on_command_line,
                                   bugged),
         part_is_solid, grid_settings, on_command_line, bugged, spinnable)

\* The map over (loc, mask) of candidates_for_part: Candidates with the
\* given compressed flag.
AsCandidates(found, compressed) ==
    [panic |-> found.panic,
     cands |-> [k \in 1 .. Len(found.locations) |->
                  [placement |-> [loc |-> found.locations[k].loc,
                                  compressed |-> compressed],
                   mask |-> found.locations[k].mask]]]

\* One pass of candidates_for_part over a mask.
CandidatePass(mask, compressed, part, grid_settings, constraint, spinnable) ==
    AsCandidates(
        PlacementLocationsAndMasksForMask(
            mask, part.is_solid, grid_settings, constraint.on_command_line,
            constraint.bugged, spinnable),
        compressed)

\* Iterator::chain of two passes.
Chain(a, b) == [panic |-> a.panic \/ b.panic, cands |-> a.cands \o b.cands]

\* candidates_for_part.  The Some(false) arm enumerates compressed_mask, as
\* the source does.
CandidatesForPart(part, grid_settings, constraint, spinnable) ==
    IF constraint.compressed = Some(TRUE)
    THEN CandidatePass(part.compressed_mask, TRUE, part, grid_settings, constraint,
                       spinnable)
    ELSE IF constraint.compressed = Some(FALSE)
    THEN CandidatePass(part.compressed_mask, FALSE, part, grid_settings, constraint,
                       spinnable)
    ELSE IF part.compressed_mask = part.uncompressed_mask
    THEN CandidatePass(part.compressed_mask, TRUE, part, grid_settings, constraint,
                       spinnable)
    ELSE Chain(CandidatePass(part.compressed_mask, TRUE, part, grid_settings,
                             constraint, spinnable),
               CandidatePass(part.uncompressed_mask, FALSE, part, grid_settings,
                             constraint, spinnable))

----------------------------------------------------------------------------
\* Pre-check, whole-solution check, place_all

\* The number of set cells a requirement is counted with.
RequirementCells(parts, req) ==
    LET part == parts[req.part_index + 1]
    IN  IF req.constraint.compressed = Some(FALSE)
        THEN CountSet(part.uncompressed_mask)
        ELSE CountSet(part.compressed_mask)

RECURSIVE SumCells(_, _, _)
SumCells(parts, requirements, n) ==
    IF n = 0 THEN 0
    ELSE SumCells(parts, requirements, n - 1) + RequirementCells(parts, requirements[n])

\* width * height - (4 or 0) underflows when has_oob on a grid of fewer than
\* four cells: a panic when checked, a wrapped (huge) value otherwise.
AllowedSpaceUnderflows(grid_settings) ==
    grid_settings.has_oob /\ grid_settings.width * grid_settings.height < 4

\* requirements_are_admissible without its first check (the count of
\* requirements on the command line against the width).
MutAdmissibleNoLineCount(parts, requirements, grid_settings, checked) ==
    LET allowed == WrapSub(grid_settings.width * grid_settings.height,
                           IF grid_settings.has_oob THEN 4 ELSE 0)
    IN  IF checked /\ AllowedSpaceUnderflows(grid_settings) THEN "panic"
        ELSE IF SumCells(parts, requirements, Len(requirements)) > allowed THEN "false"
        ELSE "true"

\* requirements_are_admissible: "true", "false" or "panic".
RequirementsAreAdmissible(parts, requirements, grid_settings, checked) ==
    LET on_line == Cardinality({k \in 1 .. Len(requirements) :
                       requirements[k].constraint.on_command_line = Some(TRUE)})
        allowed == WrapSub(grid_settings.width * grid_settings.height,
                           IF grid_settings.has_oob THEN 4 ELSE 0)
    IN  IF on_line > grid_settings.width THEN "false"
        ELSE IF checked /\ AllowedSpaceUnderflows(grid_settings) THEN "panic"
        ELSE IF SumCells(parts, requirements, Len(requirements)) > allowed THEN "false"
        ELSE "true"

\* The requirement indices Placed on the in-grid neighbours of (y, x).
NeighborPlaced(g, y, x) ==
    {GridAt(g, n[1], n[2]) :
        n \in {m \in {<<y, x - 1>>, <<y, x + 1>>, <<y - 1, x>>, <<y + 1, x>>} :
                  /\ m[1] >= 0 /\ m[1] < g.height
                  /\ m[2] >= 0 /\ m[2] < g.width
                  /\ GridAt(g, m[1], m[2]) >= 0}}

\* The cells at which the grid holds Placed(req_idx).
CellsOf(g, req_idx) ==
    {c \in (0 .. g.height - 1) \X (0 .. g.width - 1) :
        GridAt(g, c[1], c[2]) = Placed(req_idx)}

\* The PlacementDetail solution_is_admissible accumulates for req_idx.  The
\* out_of_bounds test is the source's: x == 0 || x == w - 1 || y == h - 1 ||
\* x == w - 1.
PlacementDetail(parts, requirements, g, req_idx) ==
    LET h == g.height
        w == g.width
        part == parts[requirements[req_idx + 1].part_index + 1]
        cells == CellsOf(g, req_idx)
    IN  [out_of_bounds |->
            \E c \in cells :
                g.has_oob /\ (c[2] = 0 \/ c[2] = w - 1 \/ c[1] = h - 1 \/ c[2] = w - 1),
         on_command_line |-> \E c \in cells : c[1] = g.command_line_row,
         touching_same_color |->
            \E c \in cells : \E neighbor_req_idx \in NeighborPlaced(g, c[1], c[2]) :
                /\ neighbor_req_idx # req_idx
                /\ parts[requirements[neighbor_req_idx + 1].part_index + 1].color
                       = part.color]

SolutionIsAdmissible(parts, requirements, g) ==
    \A k \in 1 .. Len(requirements) :
        LET req == requirements[k]
            part == parts[req.part_index + 1]
            placement_detail == PlacementDetail(parts, requirements, g, k - 1)
            placement_is_bugged ==
                \/ placement_detail.out_of_bounds
                \/ (part.is_solid = ~placement_detail.on_command_line)
                \/ placement_detail.touching_same_color
        IN  ~(req.constraint.bugged # None
              /\ req.constraint.bugged # Some(placement_is_bugged))

\* The returned vector of place_all: per cell the requirement index, or None.
Projection(g) ==
    [k \in 1 .. Len(g.cells) |-> IF g.cells[k] >= 0 THEN Some(g.cells[k]) ELSE None]

\* The loop of place_all from placement number n on, holding grid g.
RECURSIVE PlaceAllFrom(_, _, _, _, _, _)
PlaceAllFrom(n, g, parts, requirements, placements, checked) ==
    IF n > Len(placements) THEN [status |-> "Some", cells |-> Projection(g)]
    ELSE IF n > Len(requirements) THEN [status |-> "panic", cells |-> <<>>]
    ELSE LET req_idx == n - 1
             placement == placements[n]
             part == parts[requirements[n].part_index + 1]
             mask == Rotate(IF placement.compressed THEN part.compressed_mask
                            ELSE part.uncompressed_mask, placement.loc.rotation)
             res == Place(g, mask, placement.loc.position, req_idx, checked)
         IN  IF res.status = "Some"
             THEN PlaceAllFrom(n + 1, CHOOSE next \in res.grid : TRUE, parts,
                               requirements, placements, checked)
             ELSE [status |-> res.status, cells |-> <<>>]

PlaceAll(parts, requirements, placements, grid_settings, checked) ==
    PlaceAllFrom(1, GridNew(grid_settings), parts, requirements, placements, checked)

\* The part-topology of a grid: per cell the part_index of the requirement
\* placed there, or None.
GridByParts(g, requirements) ==
    [k \in 1 .. Len(g.cells) |->
        IF g.cells[k] >= 0 THEN Some(requirements[g.cells[k] + 1].part_index) ELSE None]

----------------------------------------------------------------------------
\* The inputs of Spec: a catalogue of parts, requirement lists of bounded
\* length, four grids.

MaxReqs == 2

OptBool == {None, Some(TRUE), Some(FALSE)}
Constraints == [compressed : OptBool, on_command_line : OptBool, bugged : OptBool]

\* Part 0 is a solid domino that grows to an L when uncompressed; part 1 a
\* single non-solid cell of another colour.
Parts ==
    << [is_solid |-> TRUE, color |-> 0,
        compressed_mask |-> [height |-> 1, width |-> 2, cells |-> <<TRUE, TRUE>>],
        uncompressed_mask |->
            [height |-> 2, width |-> 2, cells |-> <<TRUE, TRUE, TRUE, FALSE>>]],
       [is_solid |-> FALSE, color |-> 1,
        compressed_mask |-> [height |-> 1, width |-> 1, cells |-> <<TRUE>>],
        uncompressed_mask |-> [height |-> 1, width |-> 1, cells |-> <<TRUE>>]] >>

Requirements == [part_index : 0 .. Len(Parts) - 1, constraint : Constraints]

RequirementLists == UNION {[1 .. n -> Requirements] : n \in 0 .. MaxReqs}

\* A 2x2 grid without out-of-bounds cells and a 3x3 grid with them, each
\* with every command line row up to and including the first invalid one; a
\* one-column grid, narrower than two requirements on the command line; and
\* a 1x1 grid with out-of-bounds cells, which has fewer than four cells.
SolveSettings ==
    {[height |-> 2, width |-> 2, has_oob |-> FALSE, command_line_row |-> c] :
        c \in 0 .. 2}
    \cup {[height |-> 3, width |-> 3, has_oob |-> TRUE, command_line_row |-> c] :
        c \in 0 .. 3}
    \cup {[height |-> 2, width |-> 1, has_oob |-> FALSE, command_line_row |-> c] :
        c \in 0 .. 1}
    \cup {[height |-> 1, width |-> 1, has_oob |-> TRUE, command_line_row |-> 0]}

SpinnableColors == {<<>>, <<TRUE>>}

\* candidates_for_part, worked out once for every part, grid, constraint and
\* spinnability an input of Spec can ask for.
CandidateTable ==
    {[key |-> key, found |-> CandidatesForPart(key[1], key[2], key[3], key[4])] :
        key \in {Parts[i] : i \in 1 .. Len(Parts)} \X SolveSettings \X Constraints
                    \X BOOLEAN}

Tabulated(part, grid_settings, constraint, spinnable) ==
    (CHOOSE entry \in CandidateTable :
        entry.key = <<part, grid_settings, constraint, spinnable>>).found

----------------------------------------------------------------------------
\* solve

\* The early return taken only for a row beyond the first invalid one.
MutRowOutsideStrict(grid_settings) ==
    grid_settings.command_line_row > grid_settings.height

\* The early return of solve at an invalid command line row.
CommandLineRowOutside(grid_settings) ==
    grid_settings.command_line_row >= grid_settings.height

\* spinnable_colors.get(part.color), false when missing.
Spinnable(spinnable_colors, part) ==
    IF part.color + 1 <= Len(spinnable_colors) THEN spinnable_colors[part.color + 1]
    ELSE FALSE

\* The (i, candidates_for_part(...)) list of solve before sorting.
CandidateEntry(i, found) == [req_idx |-> i, cands |-> found.cands, panic |-> found.panic]

CandidateLists(parts, requirements, grid_settings, spinnable_colors) ==
    [k \in 1 .. Len(requirements) |->
        CandidateEntry(
            k - 1,
            Tabulated(parts[requirements[k].part_index + 1], grid_settings,
                      requirements[k].constraint,
                      Spinnable(spinnable_colors,
                                parts[requirements[k].part_index + 1])))]

\* A sort key that leaves the candidate list in input order.
MutKeyLessByIndex(a, b) == a.req_idx < b.req_idx

\* The sort key (c.len(), i) of the candidate list, compared.
CandidateKeyLess(a, b) ==
    \/ Len(a.cands) < Len(b.cands)
    \/ Len(a.cands) = Len(b.cands) /\ a.req_idx < b.req_idx

\* candidates.sort_unstable_by_key(|(i, c)| (c.len(), *i)): the keys are
\* distinct, so the sorted order is unique.
SortCandidates(list) ==
    LET Rank(k) == Cardinality({j \in 1 .. Len(list) :
                        CandidateKeyLess(list[j], list[k])})
    IN  [p \in 1 .. Len(list) |->
            LET k == CHOOSE j \in 1 .. Len(list) : Rank(j) = p - 1
            IN  [req_idx |-> list[k].req_idx, cands |-> list[k].cands]]

\* solution.sort_by_key(|(i, _)| *i) with the original order left in place.
MutSortSolutionSkipped(solution) == solution

\* solution.sort_by_key(|(i, _)| *i): a stable sort.
SortSolution(solution) ==
    LET Rank(k) == Cardinality({j \in 1 .. Len(solution) :
                        \/ solution[j].req_idx < solution[k].req_idx
                        \/ solution[j].req_idx = solution[k].req_idx /\ j < k})
    IN  [p \in 1 .. Len(solution) |->
            solution[CHOOSE j \in 1 .. Len(solution) : Rank(j) = p - 1]]

\* visited.contains(&grid_by_parts) answering false always.
MutVisitedNever(seen, grid_by_parts) == FALSE

\* visited.contains(&grid_by_parts)
VisitedContains(seen, grid_by_parts) == grid_by_parts \in seen

\* A live solve_helper invocation: the grid it was called with, the number
\* ci of the candidate its loop is at, and the solutions it has yielded to
\* the collect() of its caller.  candidate_idx is the position in the stack.
Frame(g) == [grid |-> g, ci |-> 1, out |-> <<>>]

Top == stack[Len(stack)]
CandidateIdx == Len(stack) - 1
AtLeaf == CandidateIdx >= Len(candidates)

\* What the leaf invocation yields: an empty vector.  The grid it holds and
\* the candidate numbers of its callers go with it for the properties.
LeafSolution ==
    [sol |-> <<>>, grid |-> Top.grid,
     path |-> [d \in 1 .. Len(stack) - 1 |-> stack[d].ci]]

\* The loop `for mut solution in solutions` of the invocation at
\* candidate_idx, over what its callee yielded on the grid child_grid.
ProcessSolutions(solutions, candidate_idx, req_idx, placement, child_grid) ==
    LET WithPlacement(s) == [s EXCEPT !.sol = Append(@, [req_idx |-> req_idx,
                                                          placement |-> placement])]
        pushed == [k \in 1 .. Len(solutions) |-> WithPlacement(solutions[k])]
        Kept(s) == ~(/\ candidate_idx = Len(candidates) - 1
                     /\ ~SolutionIsAdmissible(input.parts, input.requirements,
                                              child_grid))
    IN  SelectSeq(pushed, Kept)

\* The solutions an invocation has yielded with those of its next candidate
\* put in front of them.
MutCollectedInFront(out, kept) == kept \o out

\* The solutions an invocation has yielded so far, followed by those it
\* yields for its next candidate.
Collected(out, kept) == out \o kept

\* The body of the loop of solve over the root invocation: sort, then strip
\* the indices.
Emit(s) ==
    LET sorted == SortSolution(s.sol)
    IN  [solution |-> [k \in 1 .. Len(sorted) |-> sorted[k].placement],
         grid |-> s.grid, path |-> s.path]

\* The solutions of the root invocation pass through
\* assert!(solution.len() == num_requirements) one by one.
EmitAll(solutions) ==
    LET bad == {k \in 1 .. Len(solutions) :
                    Len(solutions[k].sol) # Len(input.requirements)}
        stop == IF bad = {} THEN Len(solutions) + 1
                ELSE CHOOSE k \in bad : \A j \in bad : k <= j
    IN  [panic |-> bad # {},
         emitted |-> [k \in 1 .. stop - 1 |-> Emit(solutions[k])]]

----------------------------------------------------------------------------
\* PlaceSpec: Grid::place applied to grids built by Grid::new and earlier
\* successful place calls, as its callers do (a clone of the held grid is
\* moved into place; the held grid is replaced only by a returned grid).

Masks(hmax, wmax) ==
    UNION {UNION {[height : {h}, width : {w}, cells : [1 .. h * w -> BOOLEAN]]
                    : w \in 1 .. wmax} : h \in 1 .. hmax}

\* Grid::place never reads command_line_row: one valid row per height.
PlaceSettings ==
    UNION {[height : {h}, width : 1 .. MaxW, has_oob : BOOLEAN,
            command_line_row : {h - 1}] : h \in 1 .. MaxH}

PlacePositions(g) ==
    [x : -(g.width + 1) .. (g.width + 1), y : -(g.height + 1) .. (g.height + 1)]

NoCall == [made |-> FALSE]

\* solve is not running.
SolveIdle ==
    /\ pc = "idle"
    /\ input = <<>>
    /\ candidates = <<>>
    /\ stack = <<>>
    /\ visited = {}
    /\ emitted = <<>>

PlaceInit ==
    /\ overflow_checks \in BOOLEAN
    /\ grid \in {GridNew(s) : s \in PlaceSettings}
    /\ placed = 0
    /\ call = NoCall
    /\ SolveIdle

PlaceCallWith(mask, pos, requirement_index) ==
    /\ LET res == Place(grid, mask, pos, requirement_index, overflow_checks)
       IN  /\ call' = [made |-> TRUE, before |-> grid, mask |-> mask, pos |-> pos,
                       requirement_index |-> requirement_index,
                       status |-> res.status]
           /\ grid' = IF res.status = "Some" THEN CHOOSE g \in res.grid : TRUE
                      ELSE grid
           /\ placed' = IF res.status = "Some" THEN placed + 1 ELSE placed
    /\ UNCHANGED <<overflow_checks, solveVars>>

PlaceCall ==
    /\ ~call.made
    /\ placed < MaxPlaced
    /\ \E mask \in Masks(MaxMaskH, MaxMaskW), pos \in PlacePositions(grid),
          requirement_index \in 0 .. NumReqIdx - 1 :
            PlaceCallWith(mask, pos, requirement_index)

PlaceReturn ==
    /\ call.made
    /\ call' = NoCall
    /\ UNCHANGED <<overflow_checks, grid, placed, solveVars>>

PlaceNext == PlaceCall \/ PlaceReturn

PlaceSpec == PlaceInit /\ [][PlaceNext]_vars

----------------------------------------------------------------------------
\* Spec: one run of solve, pulled to exhaustion, on inputs drawn from a
\* catalogue of parts, requirement lists of bounded length and four grids.

SolveInputs ==
    [parts : {Parts}, requirements : RequirementLists, grid_settings : SolveSettings,
     spinnable_colors : SpinnableColors]

\* Grid::place is not running on its own.
PlaceIdle ==
    /\ grid = <<>>
    /\ placed = 0
    /\ call = NoCall

\* The build profile shows in solve only where the pre-check underflows.
Init ==
    /\ input \in SolveInputs
    /\ overflow_checks \in
          IF AllowedSpaceUnderflows(input.grid_settings) THEN BOOLEAN ELSE {FALSE}
    /\ pc = "start"
    /\ candidates = <<>>
    /\ stack = <<>>
    /\ visited = {}
    /\ emitted = <<>>
    /\ PlaceIdle

\* solve up to the first call of solve_helper: the early return, the
\* pre-check, the candidate lists and their sort.
Begin(admissible, lists) ==
    IF CommandLineRowOutside(input.grid_settings) THEN "done"
    ELSE IF admissible = "false" THEN "done"
    ELSE IF admissible = "panic" THEN "panic"
    ELSE IF \E k \in 1 .. Len(lists) : lists[k].panic THEN "panic"
    ELSE "search"

SolveStart ==
    /\ pc = "start"
    /\ pc' = Begin(RequirementsAreAdmissible(input.parts, input.requirements,
                                             input.grid_settings, overflow_checks),
                   CandidateLists(input.parts, input.requirements, input.grid_settings,
                                  input.spinnable_colors))
    /\ IF pc' = "search"
       THEN /\ candidates' = SortCandidates(CandidateLists(
                                 input.parts, input.requirements, input.grid_settings,
                                 input.spinnable_colors))
            /\ stack' = <<Frame(GridNew(input.grid_settings))>>
       ELSE UNCHANGED <<candidates, stack>>
    /\ UNCHANGED <<input, visited, emitted, overflow_checks, placeVars>>

\* One turn of `for candidate in cands` in the innermost invocation, up to
\* the recursive call.
SolveTry ==
    /\ pc = "search"
    /\ ~AtLeaf
    /\ Top.ci <= Len(candidates[CandidateIdx + 1].cands)
    /\ LET req_idx == candidates[CandidateIdx + 1].req_idx
           candidate == candidates[CandidateIdx + 1].cands[Top.ci]
           requirement == input.requirements[req_idx + 1]
           part == input.parts[requirement.part_index + 1]
           res == Place(Top.grid, candidate.mask, candidate.placement.loc.position,
                        req_idx, overflow_checks)
           g == CHOOSE next \in res.grid : TRUE
           grid_by_parts == GridByParts(g, input.requirements)
           continue == [stack EXCEPT ![Len(stack)].ci = @ + 1]
       IN  IF res.status = "panic"
           THEN pc' = "panic" /\ UNCHANGED <<stack, visited>>
           ELSE IF res.status = "None"
           THEN stack' = continue /\ UNCHANGED <<pc, visited>>
           ELSE IF ~PlacementIsAdmissible(g, part.is_solid, req_idx,
                                          requirement.constraint.on_command_line,
                                          requirement.constraint.bugged)
           THEN stack' = continue /\ UNCHANGED <<pc, visited>>
           ELSE IF VisitedContains(visited, grid_by_parts)
           THEN stack' = continue /\ UNCHANGED <<pc, visited>>
           ELSE /\ visited' = visited \cup {grid_by_parts}
                /\ stack' = Append(stack, Frame(g))
                /\ UNCHANGED pc
    /\ UNCHANGED <<input, candidates, emitted, overflow_checks, placeVars>>

\* The innermost invocation finishes (a leaf after its one yield, another
\* after its last candidate).  Its caller, resumed from collect(), pushes its
\* own placement on each collected solution, runs the final check if it is
\* the last requirement's invocation, yields what is left and moves to its
\* next candidate.  What the root yields, solve sorts, asserts and emits.
SolveReturn ==
    /\ pc = "search"
    /\ IF AtLeaf THEN TRUE ELSE Top.ci > Len(candidates[CandidateIdx + 1].cands)
    /\ LET yielded == IF AtLeaf THEN <<LeafSolution>> ELSE Top.out
       IN  IF Len(stack) = 1
           THEN LET out == EmitAll(IF AtLeaf THEN yielded ELSE <<>>)
                IN  /\ emitted' = emitted \o out.emitted
                    /\ pc' = IF out.panic THEN "assert" ELSE "done"
                    /\ stack' = <<>>
           ELSE LET caller == stack[Len(stack) - 1]
                    caller_idx == Len(stack) - 2
                    entry == candidates[caller_idx + 1]
                    kept == ProcessSolutions(yielded, caller_idx, entry.req_idx,
                                             entry.cands[caller.ci].placement,
                                             Top.grid)
                    out == EmitAll(IF caller_idx = 0 THEN kept ELSE <<>>)
                    resumed == [caller EXCEPT
                                   !.ci = @ + 1,
                                   !.out = IF caller_idx = 0 THEN @ ELSE Collected(@, kept)]
                IN  /\ emitted' = emitted \o out.emitted
                    /\ pc' = IF out.panic THEN "assert" ELSE pc
                    /\ stack' = [k \in 1 .. Len(stack) - 1 |->
                                    IF k = Len(stack) - 1 THEN resumed ELSE stack[k]]
    /\ UNCHANGED <<input, candidates, visited, overflow_checks, placeVars>>

Next == SolveStart \/ SolveTry \/ SolveReturn

Spec == Init /\ [][Next]_vars

\* FairSpec: the runs of solve on the inputs whose requirements leave
\* compressed and bugged open, with spinnable parts.  The caller pulls from
\* the iterator again and again: the generator is resumed whenever it can
\* take a step.
FairInputs ==
    {i \in SolveInputs :
        /\ i.spinnable_colors = <<TRUE>>
        /\ \A k \in 1 .. Len(i.requirements) :
              /\ i.requirements[k].constraint.compressed = None
              /\ i.requirements[k].constraint.bugged = None}

FairInit == Init /\ input \in FairInputs

FairSpec == FairInit /\ [][Next]_vars /\ WF_vars(Next)

----------------------------------------------------------------------------
\* FnSpec: one call of one function of the module, on an input drawn from a
\* bounded set.  input holds the function's name and arguments, call what
\* it returned.

MaxFnMaskH == 3
MaxFnMaskW == 3
MaxNum == 4

\* Every mask of at most hmax rows and wmax columns, those without rows or
\* columns included.
MasksFromZero(hmax, wmax) ==
    UNION {UNION {[height : {h}, width : {w}, cells : [1 .. h * w -> BOOLEAN]]
                    : w \in 0 .. wmax} : h \in 0 .. hmax}

MaxFnGridH == 3
MaxFnGridW == 3

\* Every grid of at most MaxFnGridH rows and MaxFnGridW columns with a
\* command line row that is a row of the grid.
FnSettings ==
    UNION {[height : {h}, width : 1 .. MaxFnGridW, has_oob : BOOLEAN,
            command_line_row : 0 .. h - 1] : h \in 1 .. MaxFnGridH}

\* The grids placement_locations_and_masks_for_mask is called on: those of
\* FnSettings whose command line is the top row.
LocationsSettings == {s \in FnSettings : s.command_line_row = 0}

MaxPlaceAllReqs == 2
MaxPlaceAllRotation == 1

\* The grids place_all is called on, and the placements it is handed on
\* each: positions from one step before the grid to two columns (one row)
\* past its last.
PlaceAllSettings ==
    {[height |-> 2, width |-> 2, has_oob |-> FALSE, command_line_row |-> 0],
     [height |-> 3, width |-> 3, has_oob |-> TRUE, command_line_row |-> 0]}

PlaceAllPlacements(settings) ==
    [loc : [position : [x : -1 .. settings.width + 1, y : -1 .. settings.height],
            rotation : 0 .. MaxPlaceAllRotation],
     compressed : BOOLEAN]

\* place_all reads only the part_index of a requirement.
PlaceAllRequirements ==
    [part_index : 0 .. Len(Parts) - 1,
     constraint : {[compressed |-> None, on_command_line |-> None, bugged |-> None]}]

\* Requirement lists with, for each, at most as many placements.
PlaceAllInputs ==
    UNION {UNION {UNION {
        [op : {"place_all"}, parts : {Parts},
         requirements : [1 .. n -> PlaceAllRequirements],
         placements : [1 .. m -> PlaceAllPlacements(settings)],
         grid_settings : {settings}]
        : m \in 0 .. n} : n \in 0 .. MaxPlaceAllReqs} : settings \in PlaceAllSettings}

FnInputs ==
    [op : {"rotate"}, mask : MasksFromZero(MaxFnMaskH, MaxFnMaskW), num : 0 .. MaxNum]
    \cup [op : {"rotate90", "trimmed"}, mask : MasksFromZero(MaxFnMaskH, MaxFnMaskW)]
    \cup [op : {"placement_positions_for_mask"},
           mask : MasksFromZero(MaxMaskH, MaxMaskW), part_is_solid : BOOLEAN,
           grid_settings : FnSettings, on_command_line : OptBool, bugged : OptBool]
    \cup [op : {"placement_locations_and_masks_for_mask"},
           mask : MasksFromZero(MaxMaskH, MaxMaskW), part_is_solid : BOOLEAN,
           grid_settings : LocationsSettings, on_command_line : OptBool,
           bugged : OptBool, spinnable : BOOLEAN]
    \cup PlaceAllInputs

FnInit ==
    /\ input \in FnInputs
    /\ overflow_checks \in BOOLEAN
    /\ pc = "idle"
    /\ candidates = <<>>
    /\ stack = <<>>
    /\ visited = {}
    /\ emitted = <<>>
    /\ PlaceIdle

FnUnchanged == UNCHANGED <<overflow_checks, grid, placed, solveVars>>

\* mask.rotate(num)
CallRotate ==
    /\ ~call.made
    /\ input.op = "rotate"
    /\ call' = [made |-> TRUE, status |-> "returned",
                result |-> Rotate(input.mask, input.num)]
    /\ FnUnchanged

\* mask.rotate90()
CallRotate90 ==
    /\ ~call.made
    /\ input.op = "rotate90"
    /\ call' = [made |-> TRUE, status |-> "returned", result |-> Rotate90(input.mask)]
    /\ FnUnchanged

\* What mask.trimmed().trimmed() goes through: the first call's outcome
\* and, if it returned, the second call's.
TrimmedTwice(first, checked) ==
    IF first.status = "panic"
    THEN [made |-> TRUE, status |-> "panic", result |-> None, again |-> None]
    ELSE [made |-> TRUE,
          status |-> TrimmedRun(CHOOSE m \in first.mask : TRUE, checked).status,
          result |-> first.mask,
          again |-> TrimmedRun(CHOOSE m \in first.mask : TRUE, checked).mask]

\* mask.trimmed().trimmed()
CallTrimmed ==
    /\ ~call.made
    /\ input.op = "trimmed"
    /\ call' = TrimmedTwice(TrimmedRun(input.mask, overflow_checks), overflow_checks)
    /\ FnUnchanged

\* What placement_positions_for_mask hands back: its vector, or a panic.
PositionsOutcome(found) ==
    [made |-> TRUE, status |-> IF found.panic THEN "panic" ELSE "returned",
     result |-> found.positions]

\* placement_positions_for_mask(mask, part_is_solid, grid_settings,
\* on_command_line, bugged)
CallPlacementPositionsForMask ==
    /\ ~call.made
    /\ input.op = "placement_positions_for_mask"
    /\ call' = PositionsOutcome(
                   PlacementPositionsForMask(input.mask, input.part_is_solid,
                                             input.grid_settings, input.on_command_line,
                                             input.bugged))
    /\ FnUnchanged

\* What placement_locations_and_masks_for_mask hands back: its vector, or a
\* panic.  With overflow checks mask.trimmed() panics on a mask without rows
\* or columns, and a spinnable mask is trimmed once the positions of
\* rotation 0 were found.
LocationsOutcome(mask, spinnable, found, checked) ==
    [made |-> TRUE,
     status |-> IF \/ found.panic
                   \/ spinnable /\ TrimmedRun(mask, checked).status = "panic"
                THEN "panic" ELSE "returned",
     result |-> found.locations]

\* placement_locations_and_masks_for_mask(mask, part_is_solid, grid_settings,
\* on_command_line, bugged, spinnable)
CallPlacementLocationsAndMasksForMask ==
    /\ ~call.made
    /\ input.op = "placement_locations_and_masks_for_mask"
    /\ call' = LocationsOutcome(
                   input.mask, input.spinnable,
                   PlacementLocationsAndMasksForMask(
                       input.mask, input.part_is_solid, input.grid_settings,
                       input.on_command_line, input.bugged, input.spinnable),
                   overflow_checks)
    /\ FnUnchanged

\* What place_all hands back: Some(vector), None, or a panic.
PlaceAllOutcome(res) == [made |-> TRUE, status |-> res.status, result |-> res.cells]

\* place_all(parts, requirements, placements, grid_settings)
CallPlaceAll ==
    /\ ~call.made
    /\ input.op = "place_all"
    /\ call' = PlaceAllOutcome(PlaceAll(input.parts, input.requirements,
                                        input.placements, input.grid_settings,
                                        overflow_checks))
    /\ FnUnchanged

FnNext ==
    \/ CallRotate
    \/ CallRotate90
    \/ CallTrimmed
    \/ CallPlacementPositionsForMask
    \/ CallPlacementLocationsAndMasksForMask
    \/ CallPlaceAll

FnSpec == FnInit /\ [][FnNext]_vars

----------------------------------------------------------------------------
\* What the claims about Grid::place speak of, stated on the recorded call
\* without reference to the code's src/dst arithmetic.

\* The grid cell (row, column) that set mask cell p = (y, x) is stamped on.
Target(c, p) == <<p[1] + c.pos.y, p[2] + c.pos.x>>

InGrid(g, t) == t[1] >= 0 /\ t[1] < g.height /\ t[2] >= 0 /\ t[2] < g.width

SetCellClipped(c) ==
    \E p \in MaskSetCells(c.mask) : ~InGrid(c.before, Target(c, p))

SetCellCollides(c) ==
    \E p \in MaskSetCells(c.mask) :
        /\ InGrid(c.before, Target(c, p))
        /\ GridAt(c.before, Target(c, p)[1], Target(c, p)[2]) # Empty

\* C6: whenever place fails on a clipped set cell or on a collision, the
\* grid its caller holds is cell for cell the grid before the call.
C6_PlaceAtomic ==
    (call.made /\ (SetCellClipped(call) \/ SetCellCollides(call)))
        => (call.status # "Some" /\ grid = call.before)

\* A collision found after an earlier cell of the same mask was written.
C6_Witness ==
    /\ call.made
    /\ call.status = "None"
    /\ SetCellCollides(call)
    /\ PlaceRun(call.before, call.mask, call.pos, call.requirement_index,
                overflow_checks).self
           # call.before
    /\ grid = call.before

\* C7: when place succeeds, the returned grid holds Placed(req_idx) at
\* exactly the cells (y + pos.y, x + pos.x) of the set mask cells (y, x) and
\* every other cell is as it was.
C7_PlaceStampsExactly ==
    (call.made /\ call.status = "Some") =>
        /\ GridSettingsOf(grid) = GridSettingsOf(call.before)
        /\ \A gy \in 0 .. grid.height - 1, gx \in 0 .. grid.width - 1 :
              GridAt(grid, gy, gx) =
                 IF \E p \in MaskSetCells(call.mask) : Target(call, p) = <<gy, gx>>
                 THEN Placed(call.requirement_index)
                 ELSE GridAt(call.before, gy, gx)

\* A success at a position with a negative and a positive component, with a
\* mask no larger than the grid, beside a cell of another requirement.
C7_Witness ==
    /\ call.made
    /\ call.status = "Some"
    /\ call.pos.x < 0
    /\ call.pos.y > 0
    /\ call.mask.height <= grid.height
    /\ call.mask.width <= grid.width
    /\ MaskSetCells(call.mask) # {}
    /\ \E k \in 1 .. Len(call.before.cells) :
          call.before.cells[k] \notin {Empty, Forbidden, call.requirement_index}

\* C8 as claimed: place returns None whenever a set mask cell would be
\* stamped outside the grid, and clipping unset mask cells alone never makes
\* it fail.
C8_Claim ==
    call.made =>
        /\ SetCellClipped(call) => call.status = "None"
        /\ (~SetCellClipped(call) /\ ~SetCellCollides(call)) => call.status # "None"

\* C9: place returns None whenever a set mask cell lands on a grid cell
\* that is not Empty: a Forbidden corner or a cell Placed by any requirement,
\* its own included.
C9_PlaceRefusesCollision ==
    (call.made /\ SetCellCollides(call)) => call.status = "None"

\* A collision with a cell of the same requirement index and nothing clipped.
C9_Witness ==
    /\ call.made
    /\ call.status = "None"
    /\ ~SetCellClipped(call)
    /\ \E p \in MaskSetCells(call.mask) :
          /\ InGrid(call.before, Target(call, p))
          /\ GridAt(call.before, Target(call, p)[1], Target(call, p)[2])
                = Placed(call.requirement_index)

----------------------------------------------------------------------------
\* What the claims about solve speak of, stated on the finished grids and
\* the inputs without reference to the search.

\* The part-topology vector of a grid.
PartTopology(g) ==
    [k \in 1 .. g.height * g.width |->
        IF g.cells[k] >= 0 THEN Some(input.requirements[g.cells[k] + 1].part_index)
        ELSE None]

\* The cells (row, column) of requirement r on a grid.
Stamped(g, r) ==
    {c \in (0 .. g.height - 1) \X (0 .. g.width - 1) : g.cells[c[1] * g.width + c[2] + 1] = r}

Adjacent(c, d) ==
    \/ c[1] = d[1] /\ (c[2] = d[2] + 1 \/ d[2] = c[2] + 1)
    \/ c[2] = d[2] /\ (c[1] = d[1] + 1 \/ d[1] = c[1] + 1)

PartOf(r) == input.parts[input.requirements[r + 1].part_index + 1]

\* out_of_bounds(r): has_oob and a cell of r on row 0, row H-1, column 0 or
\* column W-1.
OutOfBounds(g, r) ==
    /\ g.has_oob
    /\ \E c \in Stamped(g, r) :
          c[1] = 0 \/ c[1] = g.height - 1 \/ c[2] = 0 \/ c[2] = g.width - 1

OnCommandLine(g, r) == \E c \in Stamped(g, r) : c[1] = g.command_line_row

TouchingSameColor(g, r) ==
    \E q \in 0 .. Len(input.requirements) - 1 :
        /\ q # r
        /\ PartOf(q).color = PartOf(r).color
        /\ \E c \in Stamped(g, r), d \in Stamped(g, q) : Adjacent(c, d)

PlacementIsBugged(g, r) ==
    \/ OutOfBounds(g, r)
    \/ (PartOf(r).is_solid = ~OnCommandLine(g, r))
    \/ TouchingSameColor(g, r)

\* The whole-solution predicate on a finished grid.
WholeSolutionHolds(g) ==
    \A r \in 0 .. Len(input.requirements) - 1 :
        LET bugged == input.requirements[r + 1].constraint.bugged
        IN  bugged # None => bugged = Some(PlacementIsBugged(g, r))

\* The pre-checks of solve, as the specification words them.
PreChecksPass ==
    LET settings == input.grid_settings
        Cells(r) == IF input.requirements[r + 1].constraint.compressed = Some(FALSE)
                    THEN Cardinality(MaskSetCells(PartOf(r).uncompressed_mask))
                    ELSE Cardinality(MaskSetCells(PartOf(r).compressed_mask))
        Total[n \in 0 .. Len(input.requirements)] ==
            IF n = 0 THEN 0 ELSE Total[n - 1] + Cells(n - 1)
    IN  /\ settings.command_line_row < settings.height
        /\ Cardinality({r \in 0 .. Len(input.requirements) - 1 :
               input.requirements[r + 1].constraint.on_command_line = Some(TRUE)})
             <= settings.width
        /\ Total[Len(input.requirements)]
             <= settings.width * settings.height - (IF settings.has_oob THEN 4 ELSE 0)

\* The grid cells one choice of (compressed, rotation, x, y) stamps.
ChoiceCells(r, choice) ==
    LET mask == Rotate(IF choice.compressed THEN PartOf(r).compressed_mask
                       ELSE PartOf(r).uncompressed_mask, choice.rotation)
    IN  {<<p[1] + choice.y, p[2] + choice.x>> : p \in MaskSetCells(mask)}

\* The choices open to requirement r by spinnability and
\* constraint.compressed that fit on the grid without clipping a set cell
\* or covering a Forbidden corner, reach the interior when has_oob, and meet
\* constraint.on_command_line.
ChoicesOf(r) ==
    LET settings == input.grid_settings
        constraint == input.requirements[r + 1].constraint
        all == [compressed : IF constraint.compressed = None THEN BOOLEAN
                             ELSE constraint.compressed,
                rotation : IF Spinnable(input.spinnable_colors, PartOf(r))
                           THEN 0 .. 3 ELSE {0},
                x : -1 .. settings.width - 1,
                y : -1 .. settings.height - 1]
        InGridCell(c) == /\ c[1] >= 0 /\ c[1] < settings.height
                         /\ c[2] >= 0 /\ c[2] < settings.width
        Interior(c) == /\ c[1] >= 1 /\ c[1] < settings.height - 1
                       /\ c[2] >= 1 /\ c[2] < settings.width - 1
    IN  {choice \in all :
            LET cells == ChoiceCells(r, choice)
            IN  /\ \A c \in cells : InGridCell(c)
                /\ settings.has_oob =>
                      /\ cells \cap Corners(settings.height, settings.width) = {}
                      /\ \E c \in cells : Interior(c)
                /\ constraint.on_command_line # None =>
                      constraint.on_command_line
                          = Some(\E c \in cells : c[1] = settings.command_line_row)}

\* The finished grid of one choice per requirement.
ChoiceGrid(choices) ==
    LET fresh == GridNew(input.grid_settings)
        Owner(k) == {r \in 0 .. Len(choices) - 1 :
                        <<(k - 1) \div fresh.width, (k - 1) % fresh.width>>
                            \in ChoiceCells(r, choices[r + 1])}
    IN  [fresh EXCEPT !.cells =
            [k \in 1 .. Len(fresh.cells) |->
                IF Owner(k) = {} THEN fresh.cells[k] ELSE CHOOSE r \in Owner(k) : TRUE]]

\* The finished grids of the choices that do not overlap and on which every
\* bugged constraint holds.
AdmissibleGrids ==
    LET n == Len(input.requirements)
        any == UNION {ChoicesOf(r) : r \in 0 .. n - 1}
        fitting == {choices \in [1 .. n -> any] :
                      /\ \A r \in 0 .. n - 1 : choices[r + 1] \in ChoicesOf(r)
                      /\ \A q, r \in 0 .. n - 1 :
                            q # r => ChoiceCells(q, choices[q + 1])
                                       \cap ChoiceCells(r, choices[r + 1]) = {}}
    IN  {g \in {ChoiceGrid(choices) : choices \in fitting} : WholeSolutionHolds(g)}

\* C1: solve is complete up to part-topology: on an input that passes the
\* pre-checks, for every choice of one placement per requirement that fits,
\* does not overlap and meets the on_command_line and bugged constraints on
\* its finished grid, some emitted Solution has a finished grid of the same
\* part-topology.  (The choices are further narrowed to those that reach the
\* interior of a grid with out-of-bounds cells, the mandatory check P1.)
C1_CompleteUpToTopology ==
    (pc = "done" /\ PreChecksPass) =>
        \A g \in AdmissibleGrids :
            \E k \in 1 .. Len(emitted) : PartTopology(emitted[k].grid) = PartTopology(g)

\* C2: every emitted Solution satisfies the whole-solution predicate with
\* out_of_bounds taken over row 0, row H-1, column 0 and column W-1: each
\* requirement whose constraint.bugged is present has it equal to
\* placement_is_bugged on the finished grid.
C2_EmittedSolutionsAdmissible ==
    \A k \in 1 .. Len(emitted) : WholeSolutionHolds(emitted[k].grid)

\* A Solution was emitted on a grid with out-of-bounds cells for a
\* requirement that must be bugged and is so by touching the border.
C2_Witness ==
    \E k \in 1 .. Len(emitted) : \E r \in 0 .. Len(input.requirements) - 1 :
        /\ input.requirements[r + 1].constraint.bugged = Some(TRUE)
        /\ OutOfBounds(emitted[k].grid, r)

\* C3: within one run no two emitted Solutions have finished grids with the
\* same part-topology vector.
C3_TopologiesDistinct ==
    \A j, k \in 1 .. Len(emitted) :
        j # k => PartTopology(emitted[j].grid) # PartTopology(emitted[k].grid)

\* The turn of the loop the search is at places its candidate, passes the
\* per-placement predicate and is skipped for its part-topology.
SkipsSeenTopology ==
    /\ pc = "search"
    /\ ~AtLeaf
    /\ Top.ci <= Len(candidates[CandidateIdx + 1].cands)
    /\ LET entry == candidates[CandidateIdx + 1]
           candidate == entry.cands[Top.ci]
           requirement == input.requirements[entry.req_idx + 1]
           res == Place(Top.grid, candidate.mask, candidate.placement.loc.position,
                        entry.req_idx, FALSE)
       IN  /\ res.status = "Some"
           /\ \E g \in res.grid :
                 /\ PlacementIsAdmissible(g, PartOf(entry.req_idx).is_solid,
                                          entry.req_idx,
                                          requirement.constraint.on_command_line,
                                          requirement.constraint.bugged)
                 /\ PartTopology(g) \in visited

\* Two requirements of the same part, several Solutions emitted, and the
\* search about to skip an arrangement it has seen.
C3_Witness ==
    /\ Len(input.requirements) = 2
    /\ input.requirements[1].part_index = input.requirements[2].part_index
    /\ Len(emitted) >= 2
    /\ SkipsSeenTopology

\* The requirement indices a grid holds, cell by cell.
RequirementIndices(g) ==
    [k \in 1 .. g.height * g.width |-> IF g.cells[k] >= 0 THEN Some(g.cells[k]) ELSE None]

\* C4: place_all on an emitted Solution returns a present result equal to
\* the solver's finished grid projected to requirement indices.
C4_PlaceAllReplaysSolution ==
    \A k \in 1 .. Len(emitted) :
        PlaceAll(input.parts, input.requirements, emitted[k].solution,
                 input.grid_settings, overflow_checks)
            = [status |-> "Some", cells |-> RequirementIndices(emitted[k].grid)]

\* C5: every emitted Solution has requirements.len() placements, element i
\* being the placement the search chose for requirement i of the input order,
\* and the assertion on the length never fails.
C5_SolutionInInputOrder ==
    /\ pc # "assert"
    /\ \A k \in 1 .. Len(emitted) :
          /\ Len(emitted[k].solution) = Len(input.requirements)
          /\ \A d \in 1 .. Len(candidates) :
                emitted[k].solution[candidates[d].req_idx + 1]
                    = candidates[d].cands[emitted[k].path[d]].placement

\* A Solution was emitted after the search placed requirement 1 before
\* requirement 0, with different placements for the two.
C5_Witness ==
    /\ Len(input.requirements) = 2
    /\ candidates # <<>>
    /\ candidates[1].req_idx = 1
    /\ \E k \in 1 .. Len(emitted) : emitted[k].solution[1] # emitted[k].solution[2]

\* C10: with command_line_row >= height solve emits nothing and builds
\* neither a candidate list nor a grid.
C10_InvalidRowEmitsNothing ==
    input.grid_settings.command_line_row >= input.grid_settings.height =>
        /\ pc \in {"start", "done"}
        /\ emitted = <<>>
        /\ candidates = <<>>
        /\ stack = <<>>
        /\ visited = {}

\* solve has returned on an input with requirements whose command line row
\* is the first row below the grid.
C10_Witness ==
    /\ pc = "done"
    /\ input.requirements # <<>>
    /\ input.grid_settings.command_line_row = input.grid_settings.height

\* The set cells the requirements ask for: per requirement those of
\* uncompressed_mask when constraint.compressed = Some(false), of
\* compressed_mask otherwise.
TotalRequiredCells ==
    LET Cells(r) == IF input.requirements[r + 1].constraint.compressed = Some(FALSE)
                    THEN Cardinality(MaskSetCells(PartOf(r).uncompressed_mask))
                    ELSE Cardinality(MaskSetCells(PartOf(r).compressed_mask))
        Total[n \in 0 .. Len(input.requirements)] ==
            IF n = 0 THEN 0 ELSE Total[n - 1] + Cells(n - 1)
    IN  Total[Len(input.requirements)]

\* H*W minus 4 if has_oob else 0, an integer that is negative for a grid
\* with out-of-bounds cells and fewer than four cells.
AllowedSpace ==
    input.grid_settings.height * input.grid_settings.width
        - (IF input.grid_settings.has_oob THEN 4 ELSE 0)

\* C11: when the requirements ask for more set cells than H*W minus 4 if
\* has_oob else 0, solve emits no Solution.
C11_OverfullEmitsNothing ==
    TotalRequiredCells > AllowedSpace => emitted = <<>>

\* The number of requirements with constraint.on_command_line = Some(true).
OnCommandLineCount ==
    Cardinality({r \in 0 .. Len(input.requirements) - 1 :
        input.requirements[r + 1].constraint.on_command_line = Some(TRUE)})

\* C12: with more requirements on the command line than the grid has
\* columns, solve emits no Solution: it returns at the pre-check, before any
\* candidate list is built.
C12_TooManyOnCommandLine ==
    OnCommandLineCount > input.grid_settings.width =>
        /\ pc \in {"start", "done"}
        /\ emitted = <<>>
        /\ candidates = <<>>
        /\ stack = <<>>

\* solve has returned on a grid with a valid command line row and one
\* column, asked for two requirements on the command line that each fit the
\* grid alone.
C12_Witness ==
    /\ pc = "done"
    /\ input.grid_settings.command_line_row < input.grid_settings.height
    /\ ~input.grid_settings.has_oob
    /\ OnCommandLineCount > input.grid_settings.width
    /\ TotalRequiredCells <= AllowedSpace

----------------------------------------------------------------------------
\* Claims about the mask algebra, stated on the call FnSpec records.

\* C13: rotate(M, 4) and rotate(M, 0) are structurally equal to M: the same
\* height, width and cell sequence.
C13_RotatePeriodic ==
    (call.made /\ input.op = "rotate" /\ input.num \in {0, 4}) =>
        /\ call.status = "returned"
        /\ call.result.height = input.mask.height
        /\ call.result.width = input.mask.width
        /\ call.result.cells = input.mask.cells

\* rotate(M, 4) has returned for a mask that is not square and is not its
\* own half turn (first cell set, last cell not).
C13_Witness ==
    /\ call.made
    /\ input.op = "rotate"
    /\ input.num = 4
    /\ input.mask.height # input.mask.width
    /\ Len(input.mask.cells) > 1
    /\ input.mask.cells[1]
    /\ ~input.mask.cells[Len(input.mask.cells)]
    /\ call.result = input.mask

\* The rows and the columns of a mask that hold a set cell.
SetRows(mask) == {p[1] : p \in MaskSetCells(mask)}
SetColumns(mask) == {p[2] : p \in MaskSetCells(mask)}

\* box is the minimal sub-rectangle of mask that contains every set cell.
IsBoundingBox(mask, box) ==
    LET top == CHOOSE y \in SetRows(mask) : \A z \in SetRows(mask) : y <= z
        bottom == CHOOSE y \in SetRows(mask) : \A z \in SetRows(mask) : y >= z
        left == CHOOSE x \in SetColumns(mask) : \A z \in SetColumns(mask) : x <= z
        right == CHOOSE x \in SetColumns(mask) : \A z \in SetColumns(mask) : x >= z
    IN  /\ box.height = bottom - top + 1
        /\ box.width = right - left + 1
        /\ Len(box.cells) = box.height * box.width
        /\ \A y \in 0 .. box.height - 1, x \in 0 .. box.width - 1 :
              MaskAt(box, y, x) = MaskAt(mask, top + y, left + x)

\* C14: trimmed(trimmed(M)) = trimmed(M); trimmed(M) is the minimal
\* sub-rectangle holding every set cell of M, and M itself when M has no
\* set cell.
C14_TrimmedIdempotent ==
    (call.made /\ input.op = "trimmed") =>
        /\ call.status = "returned"
        /\ call.again = call.result
        /\ IF MaskSetCells(input.mask) = {}
           THEN call.result = Some(input.mask)
           ELSE \E box \in call.result : IsBoundingBox(input.mask, box)

\* C15: rotate90 of a mask of height H and width W has height W and width
\* H, its cell (y, x) is the mask's cell (H-1-x, y), and it has as many set
\* cells as the mask.
C15_Rotate90Clockwise ==
    (call.made /\ input.op = "rotate90") =>
        /\ call.status = "returned"
        /\ call.result.height = input.mask.width
        /\ call.result.width = input.mask.height
        /\ Len(call.result.cells) = Len(input.mask.cells)
        /\ \A y \in 0 .. input.mask.width - 1, x \in 0 .. input.mask.height - 1 :
              call.result.cells[y * input.mask.height + x + 1]
                  = input.mask.cells[(input.mask.height - 1 - x) * input.mask.width + y + 1]
        /\ Cardinality({k \in 1 .. Len(call.result.cells) : call.result.cells[k]})
               = Cardinality({k \in 1 .. Len(input.mask.cells) : input.mask.cells[k]})

\* rotate90 has returned for a 2x3 mask whose only set cell is its top left
\* one: the result is 3x2 with only its top right cell set.
C15_Witness ==
    /\ call.made
    /\ input.op = "rotate90"
    /\ input.mask = [height |-> 2, width |-> 3,
                     cells |-> <<TRUE, FALSE, FALSE, FALSE, FALSE, FALSE>>]
    /\ call.result = [height |-> 3, width |-> 2,
                      cells |-> <<FALSE, TRUE, FALSE, FALSE, FALSE, FALSE>>]

----------------------------------------------------------------------------
\* Claims about candidate generation, stated on the call FnSpec records.

\* The grid cells a mask placed at pos on a fresh grid of the input stamps,
\* if place succeeds there.
FreshPlace(pos) == Place(GridNew(input.grid_settings), input.mask, pos, 0, FALSE)

FreshStamped(pos) ==
    LET g == CHOOSE next \in FreshPlace(pos).grid : TRUE
    IN  {c \in (0 .. g.height - 1) \X (0 .. g.width - 1) :
            g.cells[c[1] * g.width + c[2] + 1] = 0}

\* The per-placement predicate on the cells stamped by a placement.
PerPlacementPasses(cells) ==
    LET settings == input.grid_settings
        H == settings.height
        W == settings.width
        interior == \E c \in cells : c[1] \in 1 .. H - 2 /\ c[2] \in 1 .. W - 2
        outer_ring == \E c \in cells : c[1] \in {0, H - 1} \/ c[2] \in {0, W - 1}
        on_line == \E c \in cells : c[1] = settings.command_line_row
    IN  /\ settings.has_oob => interior
        /\ input.on_command_line # None => input.on_command_line = Some(on_line)
        /\ input.bugged = Some(FALSE) =>
              /\ ~(settings.has_oob /\ outer_ring)
              /\ input.part_is_solid = on_line

\* The positions the function is to return.
ExpectedPositions ==
    {pos \in [x : -input.grid_settings.width + 1 .. input.grid_settings.width - 1,
              y : -input.grid_settings.height + 1 .. input.grid_settings.height - 1] :
        /\ FreshPlace(pos).status = "Some"
        /\ PerPlacementPasses(FreshStamped(pos))}

\* C16: placement_positions_for_mask returns exactly the positions within
\* -W+1..W-1 and -H+1..H-1 at which place on a fresh grid succeeds and the
\* per-placement predicate passes, each once, in ascending y and within
\* equal y ascending x.
C16_PositionsExactInOrder ==
    (call.made /\ input.op = "placement_positions_for_mask") =>
        /\ call.status = "returned"
        /\ {call.result[k] : k \in 1 .. Len(call.result)} = ExpectedPositions
        /\ \A i, j \in 1 .. Len(call.result) :
              i < j => \/ call.result[i].y < call.result[j].y
                       \/ /\ call.result[i].y = call.result[j].y
                          /\ call.result[i].x < call.result[j].x

----------------------------------------------------------------------------
\* Claims about the order of the search.

\* Tuples of candidate numbers of equal length, compared lexicographically.
PathLess(p, q) ==
    \E d \in 1 .. Len(p) : p[d] < q[d] /\ \A e \in 1 .. d - 1 : p[e] = q[e]

\* Positions compared by y, then x.
PositionLess(p, q) == p.y < q.y \/ (p.y = q.y /\ p.x < q.x)

\* Candidates compared by rotation, then position.
RotationThenPosition(a, b) ==
    \/ a.placement.loc.rotation < b.placement.loc.rotation
    \/ /\ a.placement.loc.rotation = b.placement.loc.rotation
       /\ PositionLess(a.placement.loc.position, b.placement.loc.position)

\* Candidates compared by pass (compressed before uncompressed), then
\* rotation, then position.
PassThenRotation(a, b) ==
    \/ a.placement.compressed /\ ~b.placement.compressed
    \/ /\ a.placement.compressed = b.placement.compressed
       /\ RotationThenPosition(a, b)

\* The emitted tuples are strictly increasing, and each Solution is made
\* of the candidates its tuple numbers.
EmittedInTupleOrder ==
    /\ \A k \in 1 .. Len(emitted) - 1 : PathLess(emitted[k].path, emitted[k + 1].path)
    /\ \A k \in 1 .. Len(emitted) :
          /\ Len(emitted[k].path) = Len(candidates)
          /\ \A d \in 1 .. Len(candidates) :
                emitted[k].solution[candidates[d].req_idx + 1]
                    = candidates[d].cands[emitted[k].path[d]].placement

\* C17: the emitted tuples of candidate-list indices, in the sorted
\* requirement order, are strictly increasing lexicographically, each
\* candidate list being ordered by rotation ascending and within a rotation
\* by y then x.
C17_Claim ==
    /\ EmittedInTupleOrder
    /\ \A d \in 1 .. Len(candidates) :
          \A i, j \in 1 .. Len(candidates[d].cands) :
              i < j => RotationThenPosition(candidates[d].cands[i], candidates[d].cands[j])

\* C17, amended: the emitted tuples are strictly increasing
\* lexicographically, each candidate list holding the compressed candidates
\* before the uncompressed ones and, within each, being ordered by rotation
\* ascending and within a rotation by y then x.
C17_DepthFirstOrder ==
    /\ EmittedInTupleOrder
    /\ \A d \in 1 .. Len(candidates) :
          \A i, j \in 1 .. Len(candidates[d].cands) :
              i < j => PassThenRotation(candidates[d].cands[i], candidates[d].cands[j])

\* Three Solutions of two requirements follow each other, the first two
\* with the same first candidate, the third with a later one, and a
\* candidate list holds a rotated compressed candidate ahead of an
\* uncompressed one.
C17_Witness ==
    /\ Len(candidates) = 2
    /\ \E k \in 1 .. Len(emitted) - 2 :
          /\ emitted[k].path[1] = emitted[k + 1].path[1]
          /\ emitted[k].path[2] < emitted[k + 1].path[2]
          /\ emitted[k + 1].path[1] < emitted[k + 2].path[1]
    /\ \E d \in 1 .. 2 : \E i, j \in 1 .. Len(candidates[d].cands) :
          /\ i < j
          /\ candidates[d].cands[i].placement.loc.rotation > 0
          /\ candidates[d].cands[i].placement.compressed
          /\ ~candidates[d].cands[j].placement.compressed

----------------------------------------------------------------------------
\* Claims about place_all, stated on the call FnSpec records.

\* The mask placement i is stamped with.
ReplayMask(i) ==
    LET part == input.parts[input.requirements[i + 1].part_index + 1]
    IN  Rotate(IF input.placements[i + 1].compressed THEN part.compressed_mask
               ELSE part.uncompressed_mask,
               input.placements[i + 1].loc.rotation)

\* The cells (row, column) the set cells of placement i land on.
ReplayCells(i) ==
    {<<p[1] + input.placements[i + 1].loc.position.y,
       p[2] + input.placements[i + 1].loc.position.x>> : p \in MaskSetCells(ReplayMask(i))}

\* Step i of the replay fails: a set cell lands off the grid, on a
\* Forbidden corner or on a cell stamped by an earlier placement.
ReplayFails(i) ==
    \E c \in ReplayCells(i) :
        \/ c[1] < 0 \/ c[1] >= input.grid_settings.height
        \/ c[2] < 0 \/ c[2] >= input.grid_settings.width
        \/ input.grid_settings.has_oob
              /\ c \in Corners(input.grid_settings.height, input.grid_settings.width)
        \/ \E j \in 0 .. i - 1 : c \in ReplayCells(j)

\* C18: place_all returns None if some step of the replay fails, and
\* otherwise a row-major vector of length H*W whose cell is Some(i) where
\* placement i was stamped with requirement index i and None elsewhere.
C18_PlaceAllReplays ==
    (call.made /\ input.op = "place_all") =>
        IF \E i \in 0 .. Len(input.placements) - 1 : ReplayFails(i)
        THEN call.status = "None"
        ELSE /\ call.status = "Some"
             /\ Len(call.result) = input.grid_settings.height * input.grid_settings.width
             /\ \A y \in 0 .. input.grid_settings.height - 1,
                   x \in 0 .. input.grid_settings.width - 1 :
                   call.result[y * input.grid_settings.width + x + 1]
                       = {i \in 0 .. Len(input.placements) - 1 : <<y, x>> \in ReplayCells(i)}

\* C19: pulled again and again, the iterator of solve reaches exhaustion
\* (it returns None) after finitely many steps.
C19_SolveExhausts == <>(pc = "done")

----------------------------------------------------------------------------
\* Claims about the whole-solution predicate.

\* C20: on a finished grid the out_of_bounds flag of the whole-solution
\* predicate is, for every requirement, the one placement_is_admissible
\* computes: has_oob and a cell of the requirement on row 0, row H-1,
\* column 0 or column W-1.
C20_OutOfBoundsAgree ==
    (pc = "search" /\ AtLeaf) =>
        \A r \in 0 .. Len(input.requirements) - 1 :
            /\ PlacementDetail(input.parts, input.requirements, Top.grid, r).out_of_bounds
                   = OutOfBoundsFlag(Top.grid, r)
            /\ OutOfBoundsFlag(Top.grid, r) = OutOfBounds(Top.grid, r)

----------------------------------------------------------------------------
\* Claims about the candidates of the search.

\* The mask a placement of requirement r names: rotate(compressed_mask or
\* uncompressed_mask by its compressed flag, rotation).
NamedMask(r, placement) ==
    Rotate(IF placement.compressed THEN PartOf(r).compressed_mask
           ELSE PartOf(r).uncompressed_mask,
           placement.loc.rotation)

\* C21: the mask of every candidate, which is the mask the search stamps
\* for it, is rotate(M, placement.loc.rotation) with M the compressed_mask
\* of the part if placement.compressed and its uncompressed_mask otherwise.
C21_StampedMaskIsNamedMask ==
    \A d \in 1 .. Len(candidates) :
        \A i \in 1 .. Len(candidates[d].cands) :
            candidates[d].cands[i].mask
                = NamedMask(candidates[d].req_idx, candidates[d].cands[i].placement)

\* C22: in every emitted Solution a requirement with on_command_line =
\* Some(true) has a stamped cell on command_line_row, and one with
\* on_command_line = Some(false) has none.
C22_OnCommandLineRespected ==
    \A k \in 1 .. Len(emitted) : \A r \in 0 .. Len(input.requirements) - 1 :
        LET on_command_line == input.requirements[r + 1].constraint.on_command_line
        IN  on_command_line # None =>
                on_command_line = Some(OnCommandLine(emitted[k].grid, r))

\* A Solution has been emitted for one requirement that must be on the
\* command line and one that must not, on a grid where either could be
\* placed either way.
C22_Witness ==
    /\ Len(input.requirements) = 2
    /\ input.grid_settings.height > 1
    /\ input.requirements[1].constraint.on_command_line = Some(TRUE)
    /\ input.requirements[2].constraint.on_command_line = Some(FALSE)
    /\ \E k \in 1 .. Len(emitted) :
          /\ OnCommandLine(emitted[k].grid, 0)
          /\ ~OnCommandLine(emitted[k].grid, 1)

----------------------------------------------------------------------------
\* Claims about the rotations placement_locations_and_masks_for_mask explores.

LocationsCalled ==
    /\ call.made
    /\ input.op = "placement_locations_and_masks_for_mask"
    /\ call.status = "returned"

\* The rotations the exploration is to cover: 0, and for a spinnable mask
\* every i in 1..3 up to the first whose trimmed mask is the trimmed mask of
\* an earlier rotation.
RepeatsEarlier(mask, j) ==
    \E k \in 0 .. j - 1 : Trimmed(Rotate(mask, j)) = Trimmed(Rotate(mask, k))

Explored(mask, spinnable) ==
    {0} \cup IF spinnable
             THEN {i \in 1 .. 3 : \A j \in 1 .. i : ~RepeatsEarlier(mask, j)}
             ELSE {}

\* The positions found for rotation i of the mask of the call.
PositionsOfRotation(i) ==
    PlacementPositionsForMask(Rotate(input.mask, i), input.part_is_solid,
                              input.grid_settings, input.on_command_line,
                              input.bugged).positions

\* The pairs of the rotations i..3 that are explored, in ascending order.
RECURSIVE ExploredFrom(_)
ExploredFrom(i) ==
    IF i > 3 THEN <<>>
    ELSE (IF i \in Explored(input.mask, input.spinnable)
          THEN LocationsAt(PositionsOfRotation(i), Rotate(input.mask, i), i)
          ELSE <<>>) \o ExploredFrom(i + 1)

\* C23: placement_locations_and_masks_for_mask returns the positions of rotation 0 and, for a spinnable mask, of rotations 1, 2, 3 in ascending order up to the first rotation whose trimmed mask equals that of an earlier rotation; no two rotations in the result have equal trimmed masks, every pair's mask is rotate(M, rotation), and a non-spinnable mask yields only rotation 0.
C23_RotationsExplored ==
    LocationsCalled =>
        /\ call.result = ExploredFrom(0)
        /\ \A k \in 1 .. Len(call.result) :
              /\ call.result[k].mask = Rotate(input.mask, call.result[k].loc.rotation)
              /\ ~input.spinnable => call.result[k].loc.rotation = 0
              /\ \A l \in 1 .. Len(call.result) :
                    call.result[k].loc.rotation # call.result[l].loc.rotation
                        => Trimmed(call.result[k].mask) # Trimmed(call.result[l].mask)
              /\ k > 1 => call.result[k - 1].loc.rotation <= call.result[k].loc.rotation

\* A spinnable mask of two or more set cells whose rotation 1 was explored and whose rotation 2, with
\* positions to offer, was cut off by the trimmed mask of rotation 0.
C23_Witness ==
    /\ LocationsCalled
    /\ input.spinnable
    /\ CountSet(input.mask) > 1
    /\ \E k \in 1 .. Len(call.result) : call.result[k].loc.rotation = 1
    /\ \A k \in 1 .. Len(call.result) : call.result[k].loc.rotation <= 1
    /\ PositionsOfRotation(2) # <<>>

----------------------------------------------------------------------------
\* Claims about the order in which the search takes the requirements.

\* The number of candidates of each requirement, and the order by
\* (number of candidates, original index) on counts so listed.
CandidateCounts ==
    [k \in 1 .. Len(input.requirements) |->
        Len(Tabulated(PartOf(k - 1), input.grid_settings,
                      input.requirements[k].constraint,
                      Spinnable(input.spinnable_colors, PartOf(k - 1))).cands)]

SearchedBefore(counts, q, r) ==
    \/ counts[q + 1] < counts[r + 1]
    \/ counts[q + 1] = counts[r + 1] /\ q < r

RankOf(counts, r) == Cardinality({q \in 0 .. Len(counts) - 1 : SearchedBefore(counts, q, r)})

\* The candidate list holds the requirements in the order of their ranks.
InRankOrder(counts) ==
    \A d \in 1 .. Len(candidates) : RankOf(counts, candidates[d].req_idx) = d - 1

\* The cells in which the grid of the invocation at depth d differs from the
\* grid of its caller.
PlacedAtDepth(d) ==
    {k \in 1 .. Len(stack[d + 1].grid.cells) :
        stack[d + 1].grid.cells[k] # stack[d].grid.cells[k]}

C25_PlaceSucceedsOnEmpty ==
    (call.made /\ ~SetCellClipped(call) /\ ~SetCellCollides(call)) =>
        call.status = "Some"

----------------------------------------------------------------------------
\* Claims about the grids that successful place calls lead to.

IsCorner(g, y, x) == y \in {0, g.height - 1} /\ x \in {0, g.width - 1}

\* The Forbidden cells of g are its four corners if has_oob, none otherwise.
ForbiddenAreCorners(g) ==
    \A y \in 0 .. g.height - 1, x \in 0 .. g.width - 1 :
        GridAt(g, y, x) = Forbidden <=> (g.has_oob /\ IsCorner(g, y, x))

\* One step of the held grid: the settings stay, and a cell that changes was
\* Empty and becomes Placed(requirement_index) of the call that returned.
GridStep ==
    /\ GridSettingsOf(grid') = GridSettingsOf(grid)
    /\ \A k \in 1 .. Len(grid.cells) :
          grid'.cells[k] # grid.cells[k] =>
              /\ grid.cells[k] = Empty
              /\ call'.made /\ call'.status = "Some"
              /\ grid'.cells[k] = Placed(call'.requirement_index)

\* C26: in every grid reached from Grid::new by successful place calls the Forbidden cells are exactly the four corners if has_oob and none otherwise, has_oob and command_line_row never change, and place only changes Empty cells to Placed(req_idx), so a Placed cell keeps its value.
C26_GridInvariants == [](ForbiddenAreCorners(grid)) /\ [][GridStep]_vars

\* A grid with Forbidden corners after a second successful call, holding
\* the cells of the first requirement beside those of the second.
C26_Witness ==
    /\ call.made
    /\ call.status = "Some"
    /\ grid.has_oob
    /\ grid.height > 1
    /\ grid.width > 1
    /\ grid # call.before
    /\ \E k \in 1 .. Len(grid.cells) :
          /\ call.before.cells[k] \notin {Empty, Forbidden, call.requirement_index}
          /\ grid.cells[k] = call.before.cells[k]

----------------------------------------------------------------------------
\* Claims about solve on an empty requirement list.

NothingRequired ==
    /\ Len(input.requirements) = 0
    /\ input.grid_settings.command_line_row < input.grid_settings.height

\* C27: with no requirements and command_line_row < height, solve runs its search without a panic and ends exhausted with exactly one emitted Solution, the empty sequence.
C27_EmptyEmitsOnce ==
    (NothingRequired /\ pc # "start") =>
        /\ pc \in {"search", "done"}
        /\ pc = "search" => emitted = <<>>
        /\ pc = "done" => (Len(emitted) = 1 /\ emitted[1].solution = <<>>)

====
